---- MODULE Spec2Model ----
(***************************************************************************)
(* VeriFYD scoring pipeline: the two heuristic engines (detector.detect_ai *)
(* and detection.run_detection), the semantic engine                       *)
(* (gpt_vision.gpt_vision_score), the label thresholds and the             *)
(* certification decision of main.upload / main.analyze_link.              *)
(*                                                                         *)
(* Real-valued signals are carried as integers in thousandths (0.55 is     *)
(* 550, 80.0 is 80000); the frame rate is carried in hundredths of a frame *)
(* per second (29.97 is 2997).  A frame is identified by its 1-based read  *)
(* index.                                                                  *)
(***************************************************************************)
EXTENDS Integers, Sequences, FiniteSets, TLC

VARIABLES
    fn,           \* the engine function being executed
    pc,           \* position inside that function
    opened,       \* cap.isOpened()
    srcLen,       \* frames the source delivers before end of stream (Endless: never ends)
    fps,          \* cap.get(CAP_PROP_FPS), hundredths
    max_frames,   \* run_detection: int(fps * 10)
    reads,        \* number of cap.read() calls made so far
    frame_count,  \* frame_count
    samples,      \* detect_ai: samples
    sampled,      \* read indices of the frames that were analysed, in analysis order
    n_noise,      \* len(noise_scores) / len(noise_vals)
    n_motion,     \* len(motion_scores) = len(flow_regularity_scores) / len(motion_vals)
    n_hist,       \* len(temporal_diffs) / len(hist_diffs)
    n_buf,        \* len(gray_buffer)
    has_prev,     \* prev_gray is not None (prev_hist is set together with it)
    released,     \* cap.release() was called
    step,         \* index of the next scoring rule to apply
    sig,          \* aggregated value of the signal used by the last applied rule
    score,        \* ai_score (detect_ai) / score (run_detection)
    result,       \* value returned by the function
    vector,       \* aggregated signal values of the call, in rule order (file of known content)
    keySet,       \* OPENAI_API_KEY is a non-empty string
    total_frames, \* cap.get(CAP_PROP_FRAME_COUNT) seen by extract_key_frames
    g_pc,         \* position inside gpt_vision_score
    n_frames,     \* len(frames): key frames extracted
    attempt,      \* attempt of the retry loop
    g_fail,       \* the failure path gpt_vision_score went through, "none" without one
    g_result,     \* dict returned by gpt_vision_score
    primary,      \* score of the primary engine handed to the combiner
    weights,      \* <<primary weight, semantic weight>>
    combined,     \* combined AI score
    detection_returns, \* shape of run_detection's return value: "pair" or "triple"
    users,        \* users table: email -> row
    certs,        \* certificates table: set of rows
    files,        \* paths that exist on disk
    stamped,      \* certificate ids stamp_video was invoked for
    rq,           \* per request: handler, position, locals, response
    holds,        \* per clip path: the request whose video ffmpeg last wrote there
    content,      \* pixel content of the source file
    calls,        \* number of the call being executed on the file (1 or 2)
    earlier       \* what the first call on the file measured and returned

engineVars == <<fn, pc, opened, srcLen, fps, max_frames, reads, frame_count,
                samples, sampled, n_noise, n_motion, n_hist, n_buf, has_prev,
                released, step, sig, score, result, vector>>

gptVars == <<keySet, total_frames, g_pc, n_frames, attempt, g_fail, g_result,
             primary, weights, combined>>

mainVars == <<detection_returns, users, certs, files, stamped, rq, holds>>

callVars == <<content, calls, earlier>>

vars == <<engineVars, gptVars, mainVars, callVars>>

-----------------------------------------------------------------------------
(* Bounds of the model *)

\* longest finite short source, in frames
MaxSrcFrames == 27

\* marker for a source that never reports end of stream
Endless == -1

\* number of distinct pixel contents a file of a given length can have, less one
MaxContent == 3

-----------------------------------------------------------------------------
(* Program constants *)

DA_STRIDE == 5
DA_MAX_SAMPLES == 60
DA_BUFFER == 10
DA_BASE == 50
RD_STRIDE == 3
RD_SECONDS == 10
RD_DEFAULT_FPS == 30
RD_BASE == 70
REAL_THRESHOLD == 85
UNDETERMINED_THRESHOLD == 60
NEUTRAL == 50

-----------------------------------------------------------------------------
(* Sources and returned values *)

\* finite sources around the point where detect_ai's sample cap is reached
NearCapSources ==
    (DA_STRIDE * DA_MAX_SAMPLES - DA_STRIDE) .. (DA_STRIDE * DA_MAX_SAMPLES + DA_STRIDE + 1)

Sources == (0 .. MaxSrcFrames) \cup NearCapSources \cup {Endless}

\* reported frame rates, hundredths: negative, zero, fractional and usual ones
FpsVals == {-100, 0, 1, 9, 10, 35, 99, 125, 2997, 3000}

\* cap.read() at the given number of earlier reads: ret
ReadOk(len, done) == len = Endless \/ done < len

NoResult == [kind |-> "none", score |-> 0, label |-> "none"]
ScoreResult(s) == [kind |-> "score", score |-> s, label |-> "none"]
PairResult(s, l) == [kind |-> "pair", score |-> s, label |-> l]

\* the pixels of the file: not looked at (every aggregate is possible), or
\* one of the contents 0 .. MaxContent
AnyContent == [known |-> FALSE, id |-> 0]
Contents == {[known |-> TRUE, id |-> i] : i \in 0 .. MaxContent}

\* the element of the finite set of integers S with i % |S| smaller elements
Nth(S, i) == CHOOSE x \in S : Cardinality({y \in S : y < x}) = i % Cardinality(S)

\* the results kept of the first call on a file
NoEarlier == [vector |-> <<>>, result |-> NoResult]

Max(a, b) == IF a >= b THEN a ELSE b
Min(a, b) == IF a <= b THEN a ELSE b

-----------------------------------------------------------------------------
(* detector.py: detect_ai *)

\* mutant: the sampling phase is off by one frame
DA_IsSampleFrame_Shifted(fc) == fc % DA_STRIDE = 1

\* "if frame_count % 5 != 0: continue": is the frame just read analysed?
DA_IsSampleFrame(fc) == fc % DA_STRIDE = 0

\* mutant: the cap test lets one more sample through
DA_CapReached_Late(s) == s > DA_MAX_SAMPLES

\* "if samples >= 60: break"
DA_CapReached(s) == s >= DA_MAX_SAMPLES

\* value returned when the capture cannot be opened
DA_OpenFailure == ScoreResult(NEUTRAL)

\* value returned when no frame was analysed
DA_NoFrames == ScoreResult(NEUTRAL)

\* mutant: the upper clamp is missing
DA_Clamp_NoUpper(v) == Max(0, v)

\* max(0.0, min(100.0, ai_score))
DA_Clamp(v) == Max(0, Min(100, v))

\* int(round(ai_score)): ai_score is 50.0 plus integral adjustments, so it is
\* integral and rounding to the nearest integer leaves its value
DA_Round(v) == v

\* number of bucket rules applied by detect_ai, in source order:
\* 1 noise, 2 frequency, 3 edge, 4 dct grid, 5 gradient entropy, 6 texture
\* entropy, 7 colour correlation, 8 motion magnitude, 9 motion variance,
\* 10 histogram jitter, 11 optical-flow variance, 12 pixel flicker,
\* 13 residual variance-of-variance
DA_RULES == 13

\* values a signal can aggregate to: one inside every bucket and both sides
\* of every bucket boundary (thousandths)
DA_SpatialVals(k) ==
    CASE k = 1 -> {0, 79999, 80000, 199999, 200000, 350000, 350001, 600000, 600001}
      [] k = 2 -> {0, 549, 550, 649, 650, 750, 751, 820, 821, 1000}
      [] k = 3 -> {0, 7999, 8000, 14999, 15000, 35000, 35001, 255000}
      [] k = 4 -> {0, 899, 900, 1400, 1401, 1800, 1801}
      [] k = 5 -> {0, 3999, 4000, 4499, 4500, 5000, 5001}
      [] k = 6 -> {0, 49999, 50000, 119999, 120000, 400000, 400001}
      [] k = 7 -> {0, 349, 350, 500, 600, 601, 750, 751, 1000}

DA_TemporalVals(k) ==
    CASE k = 8  -> {0, 1999, 2000, 30000}
      [] k = 9  -> {0, 499, 500, 9000}
      [] k = 10 -> {0, 7, 8, 60, 61, 2000}
      [] k = 11 -> {0, 4999, 5000, 14999, 15000, 200000, 200001}
      [] k = 12 -> {0, 299, 300, 2500, 2501}
      [] k = 13 -> {0, 99999, 100000, 50000000, 50000001}

\* mutant: _temporal_pixel_flicker computes its value for any buffer length
DA_SignalVals_NoFlickerGuard(k, nm, nh, nb) ==
    CASE k <= 7 -> DA_SpatialVals(k)
      [] k = 8  -> IF nm > 0 THEN DA_TemporalVals(8) ELSE {0}
      [] k = 9  -> IF nm > 1 THEN DA_TemporalVals(9) ELSE {0}
      [] k = 10 -> IF nh > 0 THEN DA_TemporalVals(10) ELSE {0}
      [] k = 11 -> IF nm > 0 THEN DA_TemporalVals(11) ELSE {0}
      [] k = 12 -> DA_TemporalVals(12)
      [] k = 13 -> IF nb < 4 THEN {0} ELSE DA_TemporalVals(13)

\* the aggregation of lines 320-335: the values signal k can take given how
\* many motion values, histogram differences and buffered frames exist
DA_SignalVals(k, nm, nh, nb) ==
    CASE k <= 7 -> DA_SpatialVals(k)
      [] k = 8  -> IF nm > 0 THEN DA_TemporalVals(8) ELSE {0}
      [] k = 9  -> IF nm > 1 THEN DA_TemporalVals(9) ELSE {0}
      [] k = 10 -> IF nh > 0 THEN DA_TemporalVals(10) ELSE {0}
      [] k = 11 -> IF nm > 0 THEN DA_TemporalVals(11) ELSE {0}
      [] k = 12 -> IF nb < 3 THEN {0} ELSE DA_TemporalVals(12)
      [] k = 13 -> IF nb < 4 THEN {0} ELSE DA_TemporalVals(13)

\* the buckets of signal k in source order, each with whether the aggregated
\* value v (and the sample count the bucket asks for) satisfies its condition
\* and the adjustment it makes
DA_Buckets(k, v, nm, nh, nb) ==
    CASE k = 1 -> << [hit |-> v < 80000, delta |-> 18],
                     [hit |-> v < 200000, delta |-> 8],
                     [hit |-> v > 600000, delta |-> -15],
                     [hit |-> v > 350000, delta |-> -7] >>
      [] k = 2 -> << [hit |-> v < 550, delta |-> 14],
                     [hit |-> v < 650, delta |-> 6],
                     [hit |-> v > 820, delta |-> -12],
                     [hit |-> v > 750, delta |-> -5] >>
      [] k = 3 -> << [hit |-> v < 8000, delta |-> 10],
                     [hit |-> v < 15000, delta |-> 4],
                     [hit |-> v > 35000, delta |-> -8] >>
      [] k = 4 -> << [hit |-> v > 1800, delta |-> 12],
                     [hit |-> v > 1400, delta |-> 6],
                     [hit |-> v < 900, delta |-> -6] >>
      [] k = 5 -> << [hit |-> v < 4000, delta |-> 10],
                     [hit |-> v < 4500, delta |-> 4],
                     [hit |-> v > 5000, delta |-> -8] >>
      [] k = 6 -> << [hit |-> v < 50000, delta |-> 10],
                     [hit |-> v < 120000, delta |-> 4],
                     [hit |-> v > 400000, delta |-> -8] >>
      [] k = 7 -> << [hit |-> v > 750, delta |-> 8],
                     [hit |-> v > 600, delta |-> 3],
                     [hit |-> v < 350, delta |-> -6] >>
      [] k = 8 -> << [hit |-> v < 2000, delta |-> 8] >>
      [] k = 9 -> << [hit |-> v < 500 /\ nm > 3, delta |-> 8] >>
      [] k = 10 -> << [hit |-> v < 8 /\ nh > 3, delta |-> 8],
                      [hit |-> v > 60, delta |-> -8] >>
      [] k = 11 -> << [hit |-> nm > 3 /\ v < 5000, delta |-> 8],
                      [hit |-> nm > 3 /\ v < 15000, delta |-> 3],
                      [hit |-> nm > 3 /\ v > 200000, delta |-> -6] >>
      [] k = 12 -> << [hit |-> v > 2500, delta |-> 6],
                      [hit |-> v < 300 /\ nb >= 5, delta |-> 4] >>
      [] k = 13 -> << [hit |-> v < 100000 /\ nb >= 5, delta |-> 5],
                      [hit |-> v > 50000000, delta |-> -5] >>

\* mutant: the second noise bucket is an "if" and not an "elif", so a value
\* below 80 collects the adjustments of both buckets
DA_Delta_IfNotElif(k, v, nm, nh, nb) ==
    CASE k = 1 -> (IF v < 80000 THEN 18 ELSE 0)
                  + (IF v < 200000 THEN 8
                     ELSE IF v > 600000 THEN -15
                     ELSE IF v > 350000 THEN -7 ELSE 0)
      [] k = 2 -> IF v < 550 THEN 14
                  ELSE IF v < 650 THEN 6
                  ELSE IF v > 820 THEN -12
                  ELSE IF v > 750 THEN -5 ELSE 0
      [] k = 3 -> IF v < 8000 THEN 10
                  ELSE IF v < 15000 THEN 4
                  ELSE IF v > 35000 THEN -8 ELSE 0
      [] k = 4 -> IF v > 1800 THEN 12
                  ELSE IF v > 1400 THEN 6
                  ELSE IF v < 900 THEN -6 ELSE 0
      [] k = 5 -> IF v < 4000 THEN 10
                  ELSE IF v < 4500 THEN 4
                  ELSE IF v > 5000 THEN -8 ELSE 0
      [] k = 6 -> IF v < 50000 THEN 10
                  ELSE IF v < 120000 THEN 4
                  ELSE IF v > 400000 THEN -8 ELSE 0
      [] k = 7 -> IF v > 750 THEN 8
                  ELSE IF v > 600 THEN 3
                  ELSE IF v < 350 THEN -6 ELSE 0
      [] k = 8 -> IF v < 2000 THEN 8 ELSE 0
      [] k = 9 -> IF v < 500 /\ nm > 3 THEN 8 ELSE 0
      [] k = 10 -> IF v < 8 /\ nh > 3 THEN 8
                   ELSE IF v > 60 THEN -8 ELSE 0
      [] k = 11 -> IF nm > 3
                   THEN (IF v < 5000 THEN 8
                         ELSE IF v < 15000 THEN 3
                         ELSE IF v > 200000 THEN -6 ELSE 0)
                   ELSE 0
      [] k = 12 -> IF v > 2500 THEN 6
                   ELSE IF v < 300 /\ nb >= 5 THEN 4 ELSE 0
      [] k = 13 -> IF v < 100000 /\ nb >= 5 THEN 5
                   ELSE IF v > 50000000 THEN -5 ELSE 0

\* lines 320-335 on the file at hand: numpy and OpenCV compute signal k from
\* the pixels of the analysed frames, so a file of known content gives one
\* value for given lists of samples; a file whose pixels are left open gives
\* any value
DA_Measured(k) ==
    IF content.known
    THEN {Nth(DA_SignalVals(k, n_motion, n_hist, n_buf),
              content.id + k + n_noise + n_motion + n_hist + n_buf)}
    ELSE DA_SignalVals(k, n_motion, n_hist, n_buf)

\* the adjustment rule k makes to ai_score for the aggregated value v
DA_Delta(k, v, nm, nh, nb) ==
    CASE k = 1 -> IF v < 80000 THEN 18
                  ELSE IF v < 200000 THEN 8
                  ELSE IF v > 600000 THEN -15
                  ELSE IF v > 350000 THEN -7 ELSE 0
      [] k = 2 -> IF v < 550 THEN 14
                  ELSE IF v < 650 THEN 6
                  ELSE IF v > 820 THEN -12
                  ELSE IF v > 750 THEN -5 ELSE 0
      [] k = 3 -> IF v < 8000 THEN 10
                  ELSE IF v < 15000 THEN 4
                  ELSE IF v > 35000 THEN -8 ELSE 0
      [] k = 4 -> IF v > 1800 THEN 12
                  ELSE IF v > 1400 THEN 6
                  ELSE IF v < 900 THEN -6 ELSE 0
      [] k = 5 -> IF v < 4000 THEN 10
                  ELSE IF v < 4500 THEN 4
                  ELSE IF v > 5000 THEN -8 ELSE 0
      [] k = 6 -> IF v < 50000 THEN 10
                  ELSE IF v < 120000 THEN 4
                  ELSE IF v > 400000 THEN -8 ELSE 0
      [] k = 7 -> IF v > 750 THEN 8
                  ELSE IF v > 600 THEN 3
                  ELSE IF v < 350 THEN -6 ELSE 0
      [] k = 8 -> IF v < 2000 THEN 8 ELSE 0
      [] k = 9 -> IF v < 500 /\ nm > 3 THEN 8 ELSE 0
      [] k = 10 -> IF v < 8 /\ nh > 3 THEN 8
                   ELSE IF v > 60 THEN -8 ELSE 0
      [] k = 11 -> IF nm > 3
                   THEN (IF v < 5000 THEN 8
                         ELSE IF v < 15000 THEN 3
                         ELSE IF v > 200000 THEN -6 ELSE 0)
                   ELSE 0
      [] k = 12 -> IF v > 2500 THEN 6
                   ELSE IF v < 300 /\ nb >= 5 THEN 4 ELSE 0
      [] k = 13 -> IF v < 100000 /\ nb >= 5 THEN 5
                   ELSE IF v > 50000000 THEN -5 ELSE 0

\* lines 238-241: open the capture
DA_Open ==
    /\ fn = "detect_ai" /\ pc = "start"
    /\ IF ~opened
       THEN /\ result' = DA_OpenFailure
            /\ pc' = "done"
       ELSE /\ pc' = "loop"
            /\ UNCHANGED result
    /\ UNCHANGED <<fn, opened, srcLen, fps, max_frames, reads, frame_count, samples,
                   sampled, n_noise, n_motion, n_hist, n_buf, has_prev, released,
                   step, sig, score>>
    /\ UNCHANGED vector
    /\ UNCHANGED <<gptVars, mainVars, callVars>>

\* lines 264-308: one iteration of "while True"
DA_Iterate ==
    /\ fn = "detect_ai" /\ pc = "loop"
    /\ reads' = reads + 1
    /\ IF ~ReadOk(srcLen, reads)
       THEN /\ pc' = "after"
            /\ UNCHANGED <<frame_count, samples, sampled, n_noise, n_motion,
                           n_hist, n_buf, has_prev>>
       ELSE /\ frame_count' = frame_count + 1
            /\ IF ~DA_IsSampleFrame(frame_count')
               THEN /\ pc' = "loop"
                    /\ UNCHANGED <<samples, sampled, n_noise, n_motion, n_hist,
                                   n_buf, has_prev>>
               ELSE IF DA_CapReached(samples)
               THEN /\ pc' = "after"
                    /\ UNCHANGED <<samples, sampled, n_noise, n_motion, n_hist,
                                   n_buf, has_prev>>
               ELSE /\ pc' = "loop"
                    /\ samples' = samples + 1
                    /\ sampled' = Append(sampled, frame_count')
                    /\ n_noise' = n_noise + 1
                    /\ n_motion' = IF has_prev THEN n_motion + 1 ELSE n_motion
                    /\ n_hist' = IF has_prev THEN n_hist + 1 ELSE n_hist
                    /\ has_prev' = TRUE
                    /\ n_buf' = IF n_buf + 1 > DA_BUFFER THEN DA_BUFFER ELSE n_buf + 1
    /\ UNCHANGED <<fn, opened, srcLen, fps, max_frames, released, step, sig,
                   score, result>>
    /\ UNCHANGED vector
    /\ UNCHANGED <<gptVars, mainVars, callVars>>

\* lines 310-314 and 354: release the capture, return on an empty buffer,
\* otherwise start scoring at 50
DA_Release ==
    /\ fn = "detect_ai" /\ pc = "after"
    /\ released' = TRUE
    /\ IF n_noise = 0
       THEN /\ result' = DA_NoFrames
            /\ pc' = "done"
            /\ UNCHANGED <<step, score>>
       ELSE /\ pc' = "score"
            /\ step' = 1
            /\ score' = DA_BASE
            /\ UNCHANGED result
    /\ UNCHANGED <<fn, opened, srcLen, fps, max_frames, reads, frame_count, samples,
                   sampled, n_noise, n_motion, n_hist, n_buf, has_prev, sig>>
    /\ UNCHANGED vector
    /\ UNCHANGED <<gptVars, mainVars, callVars>>

\* lines 356-467: apply the next bucket rule to ai_score
DA_Score ==
    /\ fn = "detect_ai" /\ pc = "score" /\ step <= DA_RULES
    /\ \E v \in DA_Measured(step) :
          /\ sig' = v
          /\ vector' = IF content.known THEN Append(vector, v) ELSE vector
          /\ score' = score + DA_Delta(step, v, n_motion, n_hist, n_buf)
    /\ step' = step + 1
    /\ UNCHANGED <<fn, pc, opened, srcLen, fps, max_frames, reads, frame_count,
                   samples, sampled, n_noise, n_motion, n_hist, n_buf, has_prev,
                   released, result>>
    /\ UNCHANGED <<gptVars, mainVars, callVars>>

\* lines 469-472: clamp, round, return
DA_Return ==
    /\ fn = "detect_ai" /\ pc = "score" /\ step = DA_RULES + 1
    /\ result' = ScoreResult(DA_Round(DA_Clamp(score)))
    /\ pc' = "done"
    /\ UNCHANGED <<fn, opened, srcLen, fps, max_frames, reads, frame_count, samples,
                   sampled, n_noise, n_motion, n_hist, n_buf, has_prev, released,
                   step, sig, score>>
    /\ UNCHANGED vector
    /\ UNCHANGED <<gptVars, mainVars, callVars>>

-----------------------------------------------------------------------------
(* detection.py: run_detection *)

\* mutant: a non-positive frame rate is not replaced by the default
RD_MaxFrames_NoDefault(f) == (f * RD_SECONDS) \div 100

\* lines 34-38: "if fps <= 0: fps = 30" and "max_frames = int(fps * 10)";
\* f is the reported rate in hundredths, int() truncates
RD_MaxFrames(f) ==
    IF f <= 0 THEN RD_DEFAULT_FPS * RD_SECONDS ELSE (f * RD_SECONDS) \div 100

\* "while frame_count < max_frames"
RD_LoopGuard(fc, mf) == fc < mf

\* "if frame_count % 3 != 0: continue"
RD_IsSampleFrame(fc) == fc % RD_STRIDE = 0

\* clamp(v, lo=0, hi=100)
clamp(v) == Max(0, Min(100, v))

\* mutant: the thresholds are compared strictly
RD_Label_Strict(s) ==
    IF s > REAL_THRESHOLD THEN "REAL"
    ELSE IF s > UNDETERMINED_THRESHOLD THEN "UNDETERMINED"
    ELSE "AI"

\* lines 184-189: the label of a score
RD_Label(s) ==
    IF s >= REAL_THRESHOLD THEN "REAL"
    ELSE IF s >= UNDETERMINED_THRESHOLD THEN "UNDETERMINED"
    ELSE "AI"

\* value returned when the capture cannot be opened
RD_OpenFailure == PairResult(NEUTRAL, "UNDETERMINED")

\* value returned when no frame was analysed
RD_NoFrames == PairResult(NEUTRAL, "UNDETERMINED")

\* bucket rules of run_detection, in source order: 1 noise, 2 motion
\* variance, 3 edge, 4 frequency, 5 histogram jitter
RD_RULES == 5

\* lines 117-122: the values signal k can aggregate to (thousandths)
RD_SignalVals(k, nm, nh) ==
    CASE k = 1 -> {0, 79999, 80000, 149999, 150000, 400000, 400001}
      [] k = 2 -> IF nm > 1 THEN {0, 499, 500, 1999, 2000, 9000} ELSE {0}
      [] k = 3 -> {0, 7999, 8000, 25000, 25001, 255000}
      [] k = 4 -> {0, 549, 550, 750, 751, 1000}
      [] k = 5 -> IF nh > 0 THEN {0, 9, 10, 50, 51, 2000} ELSE {0}

\* lines 117-122 on the file at hand (see DA_Measured)
RD_Measured(k) ==
    IF content.known
    THEN {Nth(RD_SignalVals(k, n_motion, n_hist),
              content.id + k + n_noise + n_motion + n_hist)}
    ELSE RD_SignalVals(k, n_motion, n_hist)

\* lines 138-177: the adjustment rule k makes to score
RD_Delta(k, v) ==
    CASE k = 1 -> IF v < 80000 THEN -20
                  ELSE IF v < 150000 THEN -10
                  ELSE IF v > 400000 THEN 10 ELSE 0
      [] k = 2 -> IF v < 500 THEN -20
                  ELSE IF v < 2000 THEN -10 ELSE 10
      [] k = 3 -> IF v < 8000 THEN -15
                  ELSE IF v > 25000 THEN 5 ELSE 0
      [] k = 4 -> IF v < 550 THEN -15
                  ELSE IF v > 750 THEN 5 ELSE 0
      [] k = 5 -> IF v < 10 THEN -15
                  ELSE IF v > 50 THEN 5 ELSE 0

\* lines 29-38: open the capture, read the frame rate
RD_Open ==
    /\ fn = "run_detection" /\ pc = "start"
    /\ IF ~opened
       THEN /\ result' = RD_OpenFailure
            /\ pc' = "done"
            /\ UNCHANGED max_frames
       ELSE /\ max_frames' = RD_MaxFrames(fps)
            /\ pc' = "loop"
            /\ UNCHANGED result
    /\ UNCHANGED <<fn, opened, srcLen, fps, reads, frame_count, samples, sampled,
                   n_noise, n_motion, n_hist, n_buf, has_prev, released, step,
                   sig, score>>
    /\ UNCHANGED vector
    /\ UNCHANGED <<gptVars, mainVars, callVars>>

\* lines 50-106: the loop test and one iteration of the loop
RD_Iterate ==
    /\ fn = "run_detection" /\ pc = "loop"
    /\ IF ~RD_LoopGuard(frame_count, max_frames)
       THEN /\ pc' = "after"
            /\ UNCHANGED <<reads, frame_count, sampled, n_noise, n_motion,
                           n_hist, has_prev>>
       ELSE /\ reads' = reads + 1
            /\ IF ~ReadOk(srcLen, reads)
               THEN /\ pc' = "after"
                    /\ UNCHANGED <<frame_count, sampled, n_noise, n_motion,
                                   n_hist, has_prev>>
               ELSE /\ frame_count' = frame_count + 1
                    /\ pc' = "loop"
                    /\ IF ~RD_IsSampleFrame(frame_count')
                       THEN UNCHANGED <<sampled, n_noise, n_motion, n_hist,
                                        has_prev>>
                       ELSE /\ sampled' = Append(sampled, frame_count')
                            /\ n_noise' = n_noise + 1
                            /\ n_motion' = IF has_prev THEN n_motion + 1
                                           ELSE n_motion
                            /\ n_hist' = IF has_prev THEN n_hist + 1 ELSE n_hist
                            /\ has_prev' = TRUE
    /\ UNCHANGED <<fn, opened, srcLen, fps, max_frames, samples, n_buf, released,
                   step, sig, score, result>>
    /\ UNCHANGED vector
    /\ UNCHANGED <<gptVars, mainVars, callVars>>

\* lines 108-112 and 133: release the capture, return on an empty buffer,
\* otherwise start scoring at 70
RD_Release ==
    /\ fn = "run_detection" /\ pc = "after"
    /\ released' = TRUE
    /\ IF n_noise = 0
       THEN /\ result' = RD_NoFrames
            /\ pc' = "done"
            /\ UNCHANGED <<step, score>>
       ELSE /\ pc' = "score"
            /\ step' = 1
            /\ score' = RD_BASE
            /\ UNCHANGED result
    /\ UNCHANGED <<fn, opened, srcLen, fps, max_frames, reads, frame_count, samples,
                   sampled, n_noise, n_motion, n_hist, n_buf, has_prev, sig>>
    /\ UNCHANGED vector
    /\ UNCHANGED <<gptVars, mainVars, callVars>>

\* lines 138-177: apply the next bucket rule to score
RD_Score ==
    /\ fn = "run_detection" /\ pc = "score" /\ step <= RD_RULES
    /\ \E v \in RD_Measured(step) :
          /\ sig' = v
          /\ vector' = IF content.known THEN Append(vector, v) ELSE vector
          /\ score' = score + RD_Delta(step, v)
    /\ step' = step + 1
    /\ UNCHANGED <<fn, pc, opened, srcLen, fps, max_frames, reads, frame_count,
                   samples, sampled, n_noise, n_motion, n_hist, n_buf, has_prev,
                   released, result>>
    /\ UNCHANGED <<gptVars, mainVars, callVars>>

\* lines 179-193: clamp, label, return (score, label)
RD_Return ==
    /\ fn = "run_detection" /\ pc = "score" /\ step = RD_RULES + 1
    /\ score' = clamp(score)
    /\ result' = PairResult(score', RD_Label(score'))
    /\ pc' = "done"
    /\ UNCHANGED <<fn, opened, srcLen, fps, max_frames, reads, frame_count, samples,
                   sampled, n_noise, n_motion, n_hist, n_buf, has_prev, released,
                   step, sig>>
    /\ UNCHANGED vector
    /\ UNCHANGED <<gptVars, mainVars, callVars>>

-----------------------------------------------------------------------------
(* gpt_vision.py: gpt_vision_score, extract_key_frames, analyze_frames_with_gpt *)

MAX_FRAMES == 8
GPT_RETRIES == 3

GptNone == [ai_probability |-> 0, available |-> FALSE, reasoning |-> "none"]

\* mutant: the unconfigured placeholder is reported as an available score
GPT_NotConfigured_Available ==
    [ai_probability |-> NEUTRAL, available |-> TRUE, reasoning |-> "not_configured"]

\* line 225: the dict returned when OPENAI_API_KEY is not set
GPT_NotConfigured ==
    [ai_probability |-> NEUTRAL, available |-> FALSE, reasoning |-> "not_configured"]

\* line 229: the dict returned when no key frame could be extracted
GPT_NoFrames ==
    [ai_probability |-> NEUTRAL, available |-> FALSE, reasoning |-> "no_frames"]

\* line 212 then line 232: analyze_frames_with_gpt caught an exception and
\* returned its placeholder, gpt_vision_score marks the dict available
GPT_AnalysisError ==
    [ai_probability |-> NEUTRAL, available |-> TRUE, reasoning |-> "error"]

\* line 203: max(0, min(100, int(result.get("ai_probability", 50))))
GPT_Probability(answer) ==
    IF answer.kind = "no_probability" THEN NEUTRAL
    ELSE Max(0, Min(100, answer.value))

\* lines 203-208 then line 232: a parsed answer, marked available
GPT_Answer(answer) ==
    [ai_probability |-> GPT_Probability(answer), available |-> TRUE,
     reasoning |-> "model"]

\* lines 42-77: how many frames extract_key_frames can return; each of the
\* 8 seeks may fail to decode
GPT_ExtractedFrames(isOpen, total) ==
    IF ~isOpen \/ total < 1 THEN {0} ELSE 0 .. MAX_FRAMES

\* what one urlopen call can do: a 200 response with a JSON body, a 200
\* response whose body is the JSON value null, a 200 response with a body
\* that is no JSON, HTTP 429, another HTTP error status, a timeout
HttpOutcomes == {"ok", "null", "bad_body", "http429", "http_error", "timeout"}

\* ai_probability values a model answer can carry, before clamping
RawProbabilities == {-5, 0, 15, 50, 80, 100, 130}

\* what the body of a 200 response can hold: no choices/message/content, text
\* that is no JSON, JSON without ai_probability, an ai_probability that is no
\* number, an integer ai_probability
ModelAnswers ==
    {[kind |-> k, value |-> 0] :
        k \in {"no_content", "unparsable", "no_probability", "not_int"}}
    \cup {[kind |-> "value", value |-> v] : v \in RawProbabilities}

\* lines 223-231 (and 88-93, which the same conditions pass): configuration
\* check and key-frame extraction
GPT_Start ==
    /\ fn = "gpt_vision_score" /\ g_pc = "start"
    /\ IF ~keySet
       THEN /\ g_result' = GPT_NotConfigured
            /\ g_fail' = "unconfigured"
            /\ g_pc' = "done"
            /\ UNCHANGED n_frames
       ELSE \E n \in GPT_ExtractedFrames(opened, total_frames) :
               /\ n_frames' = n
               /\ IF n = 0
                  THEN /\ g_result' = GPT_NoFrames
                       /\ g_fail' = "no_frames"
                       /\ g_pc' = "done"
                  ELSE /\ g_pc' = "request"
                       /\ UNCHANGED <<g_result, g_fail>>
    /\ UNCHANGED <<keySet, total_frames, attempt, primary, weights, combined>>
    /\ UNCHANGED <<engineVars, mainVars, callVars>>

\* lines 175-189 (errors land in lines 210-212): one pass of the retry loop
GPT_Request ==
    /\ fn = "gpt_vision_score" /\ g_pc = "request"
    /\ \E o \in HttpOutcomes :
          CASE o = "ok" ->
                 /\ g_pc' = "parse"
                 /\ UNCHANGED <<attempt, g_result, g_fail>>
            [] o = "http429" /\ attempt < GPT_RETRIES - 1 ->
                 /\ attempt' = attempt + 1
                 /\ UNCHANGED <<g_pc, g_result, g_fail>>
            [] OTHER ->
                 /\ g_result' = GPT_AnalysisError
                 /\ g_fail' = (CASE o = "http429" -> "retries_exhausted"
                                 [] o = "http_error" -> "non_200"
                                 [] o = "timeout" -> "timeout"
                                 [] OTHER -> "unparsable")
                 /\ g_pc' = "done"
                 /\ UNCHANGED attempt
    /\ UNCHANGED <<keySet, total_frames, n_frames, primary, weights, combined>>
    /\ UNCHANGED <<engineVars, mainVars, callVars>>

\* lines 191-212 and 232: read the answer out of the response
GPT_Parse ==
    /\ fn = "gpt_vision_score" /\ g_pc = "parse"
    /\ \E a \in ModelAnswers :
          IF a.kind \in {"no_content", "unparsable", "not_int"}
          THEN /\ g_result' = GPT_AnalysisError
               /\ g_fail' = "unparsable"
          ELSE /\ g_result' = GPT_Answer(a)
               /\ g_fail' = IF a.kind = "no_probability" THEN "incomplete"
                            ELSE "none"
    /\ g_pc' = "done"
    /\ UNCHANGED <<keySet, total_frames, n_frames, attempt, primary, weights,
                   combined>>
    /\ UNCHANGED <<engineVars, mainVars, callVars>>

-----------------------------------------------------------------------------
(* Engine combiner (section 4.6 of the design) *)

\* n / d rounded to the nearest integer, halves up
RoundDiv(n, d) == (2 * n + d) \div (2 * d)

\* weighted mean of the available scores, weights renormalised over the
\* available engines, rounded, clamped; an unavailable engine is left out
EngineCombiner(p, g, w) ==
    IF ~g.available THEN p
    ELSE Max(0, Min(100, RoundDiv(w[1] * p + w[2] * g.ai_probability, w[1] + w[2])))

\* weightings of <<primary, semantic>>
WeightPairs == {<<1, 1>>, <<3, 2>>, <<1, 3>>}

\* scores detect_ai can hand over
PrimaryScores == 0 .. 100

Combine ==
    /\ fn = "gpt_vision_score" /\ g_pc = "done"
    /\ combined' = EngineCombiner(primary, g_result, weights)
    /\ g_pc' = "combined"
    /\ UNCHANGED <<keySet, total_frames, n_frames, attempt, g_fail, g_result,
                   primary, weights>>
    /\ UNCHANGED <<engineVars, mainVars, callVars>>

MainIdle ==
    /\ detection_returns = "pair" /\ users = <<>> /\ certs = {} /\ files = {}
    /\ stamped = {} /\ rq = <<>> /\ holds = <<>>

GptIdle ==
    /\ keySet = FALSE /\ total_frames = 0 /\ g_pc = "idle" /\ n_frames = 0
    /\ attempt = 0 /\ g_fail = "none" /\ g_result = GptNone
    /\ primary = 0 /\ weights = <<1, 1>> /\ combined = 0

EngineIdle ==
    /\ pc = "idle" /\ srcLen = 0 /\ fps = 0
    /\ max_frames = 0 /\ reads = 0 /\ frame_count = 0 /\ samples = 0
    /\ sampled = <<>> /\ n_noise = 0 /\ n_motion = 0 /\ n_hist = 0 /\ n_buf = 0
    /\ has_prev = FALSE /\ released = FALSE /\ step = 0 /\ sig = 0 /\ score = 0
    /\ result = NoResult /\ vector = <<>>

\* one call on a file whose pixels are left open
CallIdle == content = AnyContent /\ calls = 1 /\ earlier = NoEarlier

InitGpt ==
    /\ fn = "gpt_vision_score"
    /\ EngineIdle
    /\ opened \in BOOLEAN
    /\ keySet \in BOOLEAN
    /\ total_frames \in {0, 1, 180}
    /\ g_pc = "start" /\ n_frames = 0 /\ attempt = 0 /\ g_fail = "none"
    /\ g_result = GptNone
    /\ primary \in PrimaryScores
    /\ weights \in WeightPairs
    /\ combined = 0
    /\ MainIdle
    /\ CallIdle

NextGpt ==
    \/ GPT_Start
    \/ GPT_Request
    \/ GPT_Parse
    \/ Combine

SpecGpt == InitGpt /\ [][NextGpt]_vars

-----------------------------------------------------------------------------
(* main.py: upload, analyze_link, _run_analysis; database.py: users and
   certificates; video.py: clip_first_6_seconds, stamp_video *)

FREE_USES == 10

\* the requests in flight
Requests == {"r1", "r2"}

\* the registered address the requests come from
UserEmail == "user@example.com"
Anonymous == "anonymous@verifyd.com"

\* mutant: a plan name missing from PLAN_LIMITS counts as unlimited
PlanLimit_UnknownUnlimited(plan) ==
    CASE plan = "free" -> 10
      [] plan = "creator" -> 100
      [] plan = "pro" -> 500
      [] OTHER -> 999999

\* PLAN_LIMITS.get(plan, FREE_USES)
PlanLimit(plan) ==
    CASE plan = "free" -> 10
      [] plan = "creator" -> 100
      [] plan = "pro" -> 500
      [] plan = "enterprise" -> 999999
      [] OTHER -> FREE_USES

\* mutant: the UNDETERMINED entry carries the certify flag
LABEL_UI_CertifyUndetermined(label) ==
    CASE label = "REAL" -> [ui_text |-> "REAL VIDEO VERIFIED", color |-> "green", certify |-> TRUE]
      [] label = "UNDETERMINED" -> [ui_text |-> "VIDEO UNDETERMINED", color |-> "blue", certify |-> TRUE]
      [] label = "AI" -> [ui_text |-> "AI DETECTED", color |-> "red", certify |-> FALSE]
      [] OTHER -> [ui_text |-> "UNKNOWN", color |-> "grey", certify |-> FALSE]

\* LABEL_UI.get(label, ("UNKNOWN", "grey", False))
LABEL_UI(label) ==
    CASE label = "REAL" -> [ui_text |-> "REAL VIDEO VERIFIED", color |-> "green", certify |-> TRUE]
      [] label = "UNDETERMINED" -> [ui_text |-> "VIDEO UNDETERMINED", color |-> "blue", certify |-> FALSE]
      [] label = "AI" -> [ui_text |-> "AI DETECTED", color |-> "red", certify |-> FALSE]
      [] OTHER -> [ui_text |-> "UNKNOWN", color |-> "grey", certify |-> FALSE]

NoUser == [exists |-> FALSE, plan |-> "free", period_uses |-> 0, total_uses |-> 0]

\* get_or_create_user: the row of the user, inserted as a free user without
\* uses when it is missing
GetOrCreateUser(u) ==
    IF u.exists THEN u
    ELSE [exists |-> TRUE, plan |-> "free", period_uses |-> 0, total_uses |-> 0]

\* get_user_status()["allowed"] computed from the user's row
Allowed(u) == ~(u.period_uses >= PlanLimit(u.plan))

\* mutant: the UPDATE leaves total_uses out
IncrementUses_PeriodOnly(u) ==
    IF u.exists
    THEN [u EXCEPT !.period_uses = @ + 1]
    ELSE u

\* increment_user_uses: the UPDATE changes the row of an existing user only
IncrementUses(u) ==
    IF u.exists
    THEN [u EXCEPT !.period_uses = @ + 1, !.total_uses = @ + 1]
    ELSE u

Path(k, r) == <<k, r>>

\* tempfile.NamedTemporaryFile(delete=False, suffix=".mp4") of analyze_link
TmpPath(r) == Path("tmp", r)

\* mutant: the clip is written to one fixed name in TMP_DIR
ClipPath_Fixed(r) == Path("clip", "clip")

\* video.py line 470: os.path.join(TMP_DIR, f"{uuid.uuid4()}.mp4"), a fresh
\* name for every call
ClipPath(r) == Path("clip", r)

ClipPaths == {ClipPath(r) : r \in Requests}

NoResponse == [code |-> 0, url |-> FALSE]

NoExc == [type |-> "none", at |-> "none"]
Exc(t, a) == [type |-> t, at |-> a]

\* authenticity values a triple-returning run_detection hands back: the ends
\* of the range and both sides of each label threshold
Authenticities == {0, 59, 60, 84, 85, 100}

\* the triple (authenticity, label, detail) of the documented run_detection
\* for a video of authenticity a; of detail only ai_score is kept
DetectionTriple(a) ==
    [authenticity |-> a, label |-> RD_Label(a), ai_score |-> 100 - a]

\* what the three email checks say about the address of a request
NoChecks == [valid |-> FALSE, deliverable |-> FALSE, verified |-> FALSE]

NoStatus ==
    [allowed |-> FALSE, uses_left |-> 0, plan |-> "none", total_uses |-> 0,
     period_uses |-> 0, limit |-> 0, over_limit |-> FALSE]

\* database.py lines 144-171: the dict get_user_status returns for the row u
\* of the address (a missing row stands for a user not created yet)
GetUserStatus(u) ==
    LET user == GetOrCreateUser(u)
        limit == PlanLimit(user.plan)
    IN  [allowed |-> Allowed(user),
         uses_left |-> Max(0, limit - user.period_uses),
         plan |-> user.plan,
         total_uses |-> user.total_uses,
         period_uses |-> user.period_uses,
         limit |-> limit,
         over_limit |-> ~Allowed(user)]

\* mutant: the verification gate is tested before the deliverability gate
GateOutcome_VerifiedFirst(c) ==
    IF ~c.valid THEN [code |-> 400, gate |-> "format"]
    ELSE IF ~c.verified THEN [code |-> 403, gate |-> "verified"]
    ELSE IF ~c.deliverable THEN [code |-> 400, gate |-> "deliverable"]
    ELSE [code |-> 0, gate |-> "none"]

\* main.py lines 217-230: the three email gates of upload, in order; code 0
\* when all three let the request through
GateOutcome(c) ==
    IF ~c.valid THEN [code |-> 400, gate |-> "format"]
    ELSE IF ~c.deliverable THEN [code |-> 400, gate |-> "deliverable"]
    ELSE IF ~c.verified THEN [code |-> 403, gate |-> "verified"]
    ELSE [code |-> 0, gate |-> "none"]

\* main.py lines 304-309: the status /download/{cid} answers with
DownloadStatus(cid) == IF Path("cert", cid) \in files THEN 200 ELSE 404

\* a request of kind k carrying a video that run_detection scores v
FreshRequest(k, v) ==
    [kind |-> k, pc |-> "start", video |-> v, email |-> "none", authenticity |-> 0,
     label |-> "none", ai_score |-> 0, certify |-> FALSE, exc |-> NoExc,
     resp |-> NoResponse, checks |-> NoChecks, gate |-> "none", status |-> NoStatus]

\* the request is inside analyze_link's try block (lines 556-618)
InTry(r) ==
    /\ rq[r].kind = "analyze_link"
    /\ rq[r].pc \in {"download", "clip", "detect", "count", "insert"}

\* mutant: the handler returns without running the finally clause
Finally_Skipped(r, fs) == fs

\* main.py lines 632-634: "finally: if os.path.exists(tmp_path):
\* os.remove(tmp_path)", run on every way out of the try block
Finally(r, fs) == IF InTry(r) THEN fs \ {TmpPath(r)} ELSE fs

\* the handler of request r returns a response
Respond(r, code, url, fs) ==
    /\ rq' = [rq EXCEPT ![r].pc = "done", ![r].resp = [code |-> code, url |-> url]]
    /\ files' = Finally(r, fs)

\* main.py lines 217-230: the email gates of upload
U_Gates(r) ==
    /\ rq[r].kind = "upload" /\ rq[r].pc = "start"
    /\ \E valid, deliverable, verified \in BOOLEAN :
          LET c == [valid |-> valid, deliverable |-> deliverable,
                    verified |-> verified]
              g == GateOutcome(c)
          IN  /\ rq' = [rq EXCEPT ![r].checks = c,
                                  ![r].gate = g.gate,
                                  ![r].email = IF g.code = 0 THEN UserEmail ELSE @,
                                  ![r].pc = IF g.code = 0 THEN "status" ELSE "done",
                                  ![r].resp = IF g.code = 0 THEN @
                                              ELSE [code |-> g.code, url |-> FALSE]]
              /\ UNCHANGED files
    /\ UNCHANGED <<detection_returns, users, certs, stamped>>
    /\ UNCHANGED holds
    /\ UNCHANGED <<engineVars, gptVars, callVars>>

\* main.py lines 529-541: URL check and email resolution of analyze_link
L_Resolve(r) ==
    /\ rq[r].kind = "analyze_link" /\ rq[r].pc = "start"
    /\ \E urlOk \in BOOLEAN, who \in {UserEmail, Anonymous} :
          IF ~urlOk THEN Respond(r, 400, FALSE, files)
          ELSE /\ rq' = [rq EXCEPT ![r].email = who,
                                   ![r].pc = IF who = Anonymous THEN "tmp" ELSE "status"]
               /\ UNCHANGED files
    /\ UNCHANGED <<detection_returns, users, certs, stamped>>
    /\ UNCHANGED holds
    /\ UNCHANGED <<engineVars, gptVars, callVars>>

\* main.py lines 233-240 and 545-550: get_user_status and the limit gate
H_Status(r) ==
    /\ rq[r].pc = "status"
    /\ users' = [users EXCEPT ![rq[r].email] = GetOrCreateUser(@)]
    /\ LET status == GetUserStatus(users[rq[r].email])
       IN  IF ~status.allowed
           THEN rq' = [rq EXCEPT ![r].status = status, ![r].gate = "limit",
                                 ![r].pc = "done",
                                 ![r].resp = [code |-> 402, url |-> FALSE]]
           ELSE rq' = [rq EXCEPT ![r].status = status, ![r].gate = "passed",
                                 ![r].pc = IF rq[r].kind = "upload" THEN "save"
                                           ELSE "tmp"]
    /\ UNCHANGED files
    /\ UNCHANGED <<detection_returns, certs, stamped>>
    /\ UNCHANGED holds
    /\ UNCHANGED <<engineVars, gptVars, callVars>>

\* main.py lines 242-250: upload streams the file to UPLOAD_DIR
U_Save(r) ==
    /\ rq[r].kind = "upload" /\ rq[r].pc = "save"
    /\ files' = files \cup {Path("raw", r)}
    /\ rq' = [rq EXCEPT ![r].pc = "clip"]
    /\ UNCHANGED <<detection_returns, users, certs, stamped>>
    /\ UNCHANGED holds
    /\ UNCHANGED <<engineVars, gptVars, callVars>>

\* the response of a handler in which an exception was raised: upload answers
\* 500 for every exception of _run_analysis (lines 254-256), analyze_link 400
\* for ValueError and RuntimeError and 500 otherwise (lines 620-630)
AnalysisFailed(r, exc, fs) ==
    /\ rq' = [rq EXCEPT ![r].pc = "done", ![r].exc = exc,
                        ![r].resp = [code |-> IF rq[r].kind = "analyze_link"
                                                 /\ exc.type \in {"ValueError", "RuntimeError"}
                                              THEN 400 ELSE 500,
                                     url |-> FALSE]]
    /\ files' = Finally(r, fs)

\* main.py lines 552-554: analyze_link creates its temporary file
L_Tmp(r) ==
    /\ rq[r].kind = "analyze_link" /\ rq[r].pc = "tmp"
    /\ files' = files \cup {TmpPath(r)}
    /\ rq' = [rq EXCEPT ![r].pc = "download"]
    /\ UNCHANGED <<detection_returns, users, certs, stamped>>
    /\ UNCHANGED holds
    /\ UNCHANGED <<engineVars, gptVars, callVars>>

\* main.py lines 556-588 with video.py lines 387-455: download into the
\* temporary file and size check.  download_video_ytdlp removes the file
\* before it downloads; it may write it again before it raises, and it may
\* return without a file at that path, in which case os.path.getsize raises
L_Download(r) ==
    /\ rq[r].kind = "analyze_link" /\ rq[r].pc = "download"
    /\ \E o \in {"ok", "ytdlp_ok", "ytdlp_error", "ytdlp_no_file", "http_status",
                 "html", "too_small", "exception"},
          partial \in BOOLEAN :
          CASE o \in {"ok", "ytdlp_ok"} /\ ~partial ->
                 /\ rq' = [rq EXCEPT ![r].pc = "clip"]
                 /\ UNCHANGED files
            [] o = "ytdlp_error" ->
                 AnalysisFailed(r, Exc("RuntimeError", "download"),
                                IF partial THEN files ELSE files \ {TmpPath(r)})
            [] o = "ytdlp_no_file" /\ ~partial ->
                 AnalysisFailed(r, Exc("FileNotFoundError", "getsize"),
                                files \ {TmpPath(r)})
            [] o = "http_status" /\ ~partial -> Respond(r, 200, FALSE, files)
            [] o \in {"html", "too_small"} /\ ~partial -> Respond(r, 400, FALSE, files)
            [] o = "exception" ->
                 AnalysisFailed(r, Exc("RequestException", "download"), files)
            [] OTHER -> FALSE
    /\ UNCHANGED <<detection_returns, users, certs, stamped>>
    /\ UNCHANGED holds
    /\ UNCHANGED <<engineVars, gptVars, callVars>>

\* main.py line 127 with video.py lines 457-488: clip_first_6_seconds; ffmpeg
\* may have written (part of) the clip when it fails
A_Clip(r) ==
    /\ rq[r].pc = "clip"
    /\ \E o \in {"ok", "invalid", "ffmpeg_failed"}, wrote \in BOOLEAN :
          CASE o = "ok" /\ wrote ->
                 /\ files' = files \cup {ClipPath(r)}
                 /\ holds' = [holds EXCEPT ![ClipPath(r)] = r]
                 /\ rq' = [rq EXCEPT ![r].pc = "detect"]
            [] o = "invalid" /\ ~wrote ->
                 /\ AnalysisFailed(r, Exc("ValueError", "is_valid_video"), files)
                 /\ UNCHANGED holds
            [] o = "ffmpeg_failed" ->
                 /\ AnalysisFailed(r, Exc("RuntimeError", "ffmpeg"),
                                   IF wrote THEN files \cup {ClipPath(r)} ELSE files)
                 /\ holds' = IF wrote THEN [holds EXCEPT ![ClipPath(r)] = r]
                             ELSE holds
            [] OTHER -> FALSE
    /\ UNCHANGED <<detection_returns, users, certs, stamped>>
    /\ UNCHANGED <<engineVars, gptVars, callVars>>

\* main.py lines 128-139: run_detection on the clip, unpacking of its return
\* value into three names, removal of the clip, LABEL_UI lookup.  The value
\* unpacked is that of the video the clip file holds
A_Detect(r) ==
    /\ rq[r].pc = "detect"
    /\ LET clip_path == ClipPath(r)
           fs == files \ {clip_path}
       IN  IF detection_returns = "pair"
           THEN AnalysisFailed(r, Exc("ValueError", "unpack"), fs)
           ELSE IF clip_path \notin files
           THEN AnalysisFailed(r, Exc("CannotDecode", "run_detection"), fs)
           ELSE \E o \in {"returns", "raises"} :
                   IF o = "raises"
                   THEN AnalysisFailed(r, Exc("Exception", "run_detection"), fs)
                   ELSE LET t == DetectionTriple(rq[holds[clip_path]].video)
                        IN  /\ files' = fs
                            /\ rq' = [rq EXCEPT ![r].authenticity = t.authenticity,
                                                ![r].label = t.label,
                                                ![r].ai_score = t.ai_score,
                                                ![r].certify = LABEL_UI(t.label).certify,
                                                ![r].pc = "count"]
    /\ UNCHANGED <<detection_returns, users, certs, stamped>>
    /\ UNCHANGED holds
    /\ UNCHANGED <<engineVars, gptVars, callVars>>

\* main.py lines 259 and 593-595: increment_user_uses
H_Count(r) ==
    /\ rq[r].pc = "count"
    /\ users' = IF rq[r].email = Anonymous THEN users
                ELSE [users EXCEPT ![rq[r].email] = IncrementUses(@)]
    /\ rq' = [rq EXCEPT ![r].pc = "insert"]
    /\ UNCHANGED <<detection_returns, certs, files, stamped>>
    /\ UNCHANGED holds
    /\ UNCHANGED <<engineVars, gptVars, callVars>>

\* mutant: the ai_score column is filled from the authenticity
CertRow_AiFromAuthenticity(r) ==
    [cert_id |-> r, email |-> rq[r].email, label |-> rq[r].label,
     authenticity |-> rq[r].authenticity, ai_score |-> rq[r].authenticity]

\* the certificate row a request stores; the request's uuid4 is its id
CertRow(r) ==
    [cert_id |-> r, email |-> rq[r].email, label |-> rq[r].label,
     authenticity |-> rq[r].authenticity, ai_score |-> rq[r].ai_score]

\* main.py lines 262-270 and 292-300 (upload), 597-618 (analyze_link):
\* insert_certificate, then the response unless upload goes on to certify
H_Insert(r) ==
    /\ rq[r].pc = "insert"
    /\ certs' = certs \cup {CertRow(r)}
    /\ IF rq[r].kind = "upload" /\ rq[r].certify
       THEN /\ rq' = [rq EXCEPT ![r].pc = "stamp"]
            /\ UNCHANGED files
       ELSE Respond(r, 200, FALSE, files)
    /\ UNCHANGED <<detection_returns, users, stamped>>
    /\ UNCHANGED holds
    /\ UNCHANGED <<engineVars, gptVars, callVars>>

\* main.py lines 272-290 with video.py lines 491-559: stamp_video writes the
\* certified file or raises RuntimeError
U_Stamp(r) ==
    /\ rq[r].kind = "upload" /\ rq[r].pc = "stamp"
    /\ stamped' = stamped \cup {r}
    /\ \E ok \in BOOLEAN :
          IF ok THEN Respond(r, 200, TRUE, files \cup {Path("cert", r)})
          ELSE Respond(r, 500, FALSE, files)
    /\ UNCHANGED <<detection_returns, users, certs>>
    /\ UNCHANGED holds
    /\ UNCHANGED <<engineVars, gptVars, callVars>>

\* rows the users table can hold for the address when the requests arrive
InitialUsers ==
    {NoUser} \cup
    {[exists |-> TRUE, plan |-> p, period_uses |-> n, total_uses |-> n] :
        p \in {"free", "creator", "legacy"},
        n \in {0, FREE_USES - 1, FREE_USES}}

InitMain ==
    /\ fn = "main" /\ opened = FALSE /\ EngineIdle /\ GptIdle
    /\ detection_returns \in {"pair", "triple"}
    /\ users \in [{UserEmail} -> InitialUsers]
    /\ certs = {}
    /\ files = {}
    /\ stamped = {}
    /\ rq \in [Requests -> {FreshRequest(k, v) : k \in {"upload", "analyze_link"},
                                                  v \in Authenticities}]
    /\ holds = [p \in ClipPaths |-> "nobody"]
    /\ CallIdle

NextMain ==
    \E r \in Requests :
        \/ U_Gates(r)
        \/ L_Resolve(r)
        \/ H_Status(r)
        \/ U_Save(r)
        \/ L_Tmp(r)
        \/ L_Download(r)
        \/ A_Clip(r)
        \/ A_Detect(r)
        \/ H_Count(r)
        \/ H_Insert(r)
        \/ U_Stamp(r)

SpecMain == InitMain /\ [][NextMain]_vars

-----------------------------------------------------------------------------
(* main.py: the /user-status/ route, get_user_status on every kind of row *)

\* main.py lines 516-524: user_status
UserStatus(r) ==
    /\ rq[r].kind = "user_status" /\ rq[r].pc = "start"
    /\ \E valid \in BOOLEAN :
          IF ~valid
          THEN /\ rq' = [rq EXCEPT ![r].pc = "done",
                                   ![r].resp = [code |-> 400, url |-> FALSE]]
               /\ UNCHANGED users
          ELSE /\ users' = [users EXCEPT ![UserEmail] = GetOrCreateUser(@)]
               /\ rq' = [rq EXCEPT ![r].email = UserEmail,
                                   ![r].status = GetUserStatus(users[UserEmail]),
                                   ![r].pc = "done",
                                   ![r].resp = [code |-> 200, url |-> FALSE]]
    /\ UNCHANGED <<detection_returns, certs, files, stamped, holds>>
    /\ UNCHANGED <<engineVars, gptVars, callVars>>

\* period_uses values on both sides of every plan limit
StatusUses == {0, 9, 10, 11, 99, 100, 101, 499, 500, 501, 999998, 999999, 1000000}

\* rows the users table can hold for the address, the plan column included
\* with a name that PLAN_LIMITS does not know
StatusUsers ==
    {NoUser} \cup
    {[exists |-> TRUE, plan |-> p, period_uses |-> n, total_uses |-> n] :
        p \in {"free", "creator", "pro", "enterprise", "legacy"},
        n \in StatusUses}

InitStatus ==
    /\ fn = "user_status" /\ opened = FALSE /\ EngineIdle /\ GptIdle
    /\ detection_returns = "pair"
    /\ users \in [{UserEmail} -> StatusUsers]
    /\ certs = {}
    /\ files = {}
    /\ stamped = {}
    /\ rq = [r \in Requests |-> FreshRequest("user_status", 0)]
    /\ holds = [p \in ClipPaths |-> "nobody"]
    /\ CallIdle

NextStatus == \E r \in Requests : UserStatus(r)

SpecStatus == InitStatus /\ [][NextStatus]_vars

-----------------------------------------------------------------------------
(* Specification of the engines *)

EngineLocalsInit ==
    /\ pc = "start"
    /\ max_frames = 0 /\ reads = 0 /\ frame_count = 0 /\ samples = 0
    /\ sampled = <<>> /\ n_noise = 0 /\ n_motion = 0 /\ n_hist = 0 /\ n_buf = 0
    /\ has_prev = FALSE /\ released = FALSE /\ step = 0 /\ sig = 0 /\ score = 0
    /\ result = NoResult /\ vector = <<>>

\* the frame rate detect_ai's source reports (detect_ai never reads it)
DA_Fps == {100, 3000}

Init ==
    /\ fn \in {"detect_ai", "run_detection"}
    /\ opened \in BOOLEAN
    /\ srcLen \in Sources
    /\ fps \in (IF fn = "detect_ai" THEN DA_Fps ELSE FpsVals)
    /\ EngineLocalsInit
    /\ GptIdle
    /\ MainIdle
    /\ CallIdle

Next ==
    \/ DA_Open
    \/ DA_Iterate
    \/ DA_Release
    \/ DA_Score
    \/ DA_Return
    \/ RD_Open
    \/ RD_Iterate
    \/ RD_Release
    \/ RD_Score
    \/ RD_Return

Spec == Init /\ [][Next]_vars

\* detect_ai alone, with every step eventually taken: a running Python call
\* is not suspended forever
InitDA == Init /\ fn = "detect_ai"

NextDA ==
    \/ DA_Open
    \/ DA_Iterate
    \/ DA_Release
    \/ DA_Score
    \/ DA_Return

SpecDA == InitDA /\ [][NextDA]_vars /\ WF_vars(NextDA)

-----------------------------------------------------------------------------
(* The same file analysed twice *)

\* mutant: prev_gray is kept from the previous call (a module-level name)
EngineLocals_PrevKept ==
    [max_frames |-> 0, reads |-> 0, frame_count |-> 0, samples |-> 0,
     sampled |-> <<>>, n_noise |-> 0, n_motion |-> 0, n_hist |-> 0, n_buf |-> 0,
     has_prev |-> has_prev, released |-> FALSE, step |-> 0, sig |-> 0, score |-> 0,
     result |-> NoResult, vector |-> <<>>]

\* detector.py lines 243-262, detection.py lines 40-48: every accumulator is
\* a local of the call, created empty at entry
EngineLocals ==
    [max_frames |-> 0, reads |-> 0, frame_count |-> 0, samples |-> 0,
     sampled |-> <<>>, n_noise |-> 0, n_motion |-> 0, n_hist |-> 0, n_buf |-> 0,
     has_prev |-> FALSE, released |-> FALSE, step |-> 0, sig |-> 0, score |-> 0,
     result |-> NoResult, vector |-> <<>>]

\* the function is called a second time on the same path, the file being
\* unmodified: a new capture on the same frames, new locals
AnalyzeAgain ==
    /\ fn \in {"detect_ai", "run_detection"} /\ pc = "done" /\ calls = 1
    /\ earlier' = [vector |-> vector, result |-> result]
    /\ calls' = 2
    /\ pc' = "start"
    /\ max_frames' = EngineLocals.max_frames
    /\ reads' = EngineLocals.reads
    /\ frame_count' = EngineLocals.frame_count
    /\ samples' = EngineLocals.samples
    /\ sampled' = EngineLocals.sampled
    /\ n_noise' = EngineLocals.n_noise
    /\ n_motion' = EngineLocals.n_motion
    /\ n_hist' = EngineLocals.n_hist
    /\ n_buf' = EngineLocals.n_buf
    /\ has_prev' = EngineLocals.has_prev
    /\ released' = EngineLocals.released
    /\ step' = EngineLocals.step
    /\ sig' = EngineLocals.sig
    /\ score' = EngineLocals.score
    /\ result' = EngineLocals.result
    /\ vector' = EngineLocals.vector
    /\ UNCHANGED <<fn, opened, srcLen, fps, content>>
    /\ UNCHANGED <<gptVars, mainVars>>

\* frame rates of the files analysed twice
TwiceFps == {0, 125, 3000}

InitTwice ==
    /\ fn \in {"detect_ai", "run_detection"}
    /\ opened \in BOOLEAN
    /\ srcLen \in Sources
    /\ fps \in TwiceFps
    /\ EngineLocalsInit
    /\ GptIdle
    /\ MainIdle
    /\ content \in Contents /\ calls = 1 /\ earlier = NoEarlier

NextTwice ==
    \/ DA_Open
    \/ DA_Iterate
    \/ DA_Release
    \/ DA_Score
    \/ DA_Return
    \/ RD_Open
    \/ RD_Iterate
    \/ RD_Release
    \/ RD_Score
    \/ RD_Return
    \/ AnalyzeAgain

SpecTwice == InitTwice /\ [][NextTwice]_vars

-----------------------------------------------------------------------------
(* The labeler of detection.py applied to every integer score *)

\* lines 181-193 of run_detection on a clamped score s
Labeler_Apply ==
    /\ fn = "labeler" /\ pc = "start"
    /\ result' = PairResult(score, RD_Label(score))
    /\ pc' = "done"
    /\ UNCHANGED <<fn, opened, srcLen, fps, max_frames, reads, frame_count, samples,
                   sampled, n_noise, n_motion, n_hist, n_buf, has_prev, released,
                   step, sig, score>>
    /\ UNCHANGED vector
    /\ UNCHANGED <<gptVars, mainVars, callVars>>

InitLabel ==
    /\ fn = "labeler" /\ pc = "start"
    /\ opened = TRUE /\ srcLen = 0 /\ fps = 0
    /\ max_frames = 0 /\ reads = 0 /\ frame_count = 0 /\ samples = 0
    /\ sampled = <<>> /\ n_noise = 0 /\ n_motion = 0 /\ n_hist = 0 /\ n_buf = 0
    /\ has_prev = FALSE /\ released = FALSE /\ step = 0 /\ sig = 0
    /\ score \in 0 .. 100
    /\ result = NoResult /\ vector = <<>>
    /\ GptIdle
    /\ MainIdle
    /\ CallIdle

NextLabel == Labeler_Apply

SpecLabel == InitLabel /\ [][NextLabel]_vars

-----------------------------------------------------------------------------
(* Claims *)

Returned == pc = "done" /\ fn \in {"detect_ai", "run_detection"}

\* C1: whatever the aggregated signals and the numbers of motion, flow and
\* histogram samples are, the score detect_ai returns and the score
\* run_detection returns are integers between 0 and 100.
C1_ScoreInRange ==
    Returned => result.kind \in {"score", "pair"} /\ result.score \in 0 .. 100

\* C1 witness: detect_ai returned 100 for an unclamped total above 100
C1_Witness ==
    /\ fn = "detect_ai" /\ pc = "done" /\ released
    /\ score > 100 /\ result.score = 100

\* C2: a video file that cannot be opened yields an explicit CannotDecode
\* failure, never a numeric score or a label.
C2_OpenFailureIsExplicit ==
    (Returned /\ ~opened) => result.kind = "CannotDecode"

\* C3: a video that opens but from which no frame is sampled is reported as
\* a failure, never as the value 50 or the label UNDETERMINED.
C3_EmptyBufferIsFailure ==
    (Returned /\ opened /\ n_noise = 0) =>
        /\ result.kind = "CannotDecode"
        /\ result.score # NEUTRAL
        /\ result.label # "UNDETERMINED"

\* C8: detect_ai analyses the frames with read index 5, 10, 15, ... in that
\* order, without repetition and without skipping one until the cap, and never
\* holds more than 60 samples; run_detection analyses the frames with read
\* index 3, 6, 9, ... in that order.
C8_FixedStrideInOrder ==
    /\ fn = "detect_ai" =>
          /\ \A i \in 1 .. Len(sampled) : sampled[i] = 5 * i
          /\ Len(sampled) <= 60
          /\ samples = Len(sampled)
          /\ Len(sampled) = Min(frame_count \div 5, 60)
    /\ fn = "run_detection" =>
          /\ \A i \in 1 .. Len(sampled) : sampled[i] = 3 * i
          /\ Len(sampled) = frame_count \div 3

\* C8 witness: detect_ai has filled its 60 samples and left the loop
C8_Witness ==
    /\ fn = "detect_ai" /\ pc = "after"
    /\ Len(sampled) = 60 /\ sampled[60] = 300 /\ frame_count = 305

\* the frame budget of 10 seconds at the reported rate f (hundredths), the
\* rate being replaced by 30 when it is not positive
C9_Budget(f) == IF f <= 0 THEN 300 ELSE (f * 10) \div 100

\* C9 as stated: both engines stop reading as soon as the sample cap is
\* reached or the 10-second frame budget is used up, whichever comes first.
C9_BothStopConditions ==
    fn \in {"detect_ai", "run_detection"} =>
        /\ frame_count <= C9_Budget(fps)
        /\ (fn = "detect_ai" /\ samples >= 60) => frame_count <= 300

\* C9 amended: run_detection reads at most int(fps * 10) frames (30 for a
\* rate <= 0) and leaves the loop earlier only at end of stream; detect_ai
\* consults no frame rate, takes at most 60 samples and leaves the loop at
\* end of stream or at frame 305, the first stride frame after the cap.
C9_StopConditions ==
    /\ fn = "run_detection" =>
          /\ frame_count <= C9_Budget(fps)
          /\ reads <= C9_Budget(fps)
          /\ pc \in {"after", "score", "done"} /\ opened =>
                \/ frame_count = C9_Budget(fps)
                \/ (srcLen # Endless /\ frame_count = srcLen)
    /\ fn = "detect_ai" =>
          /\ samples <= 60
          /\ frame_count <= 305
          /\ pc \in {"after", "score", "done"} /\ opened =>
                \/ (samples = 60 /\ frame_count = 305)
                \/ (srcLen # Endless /\ frame_count = srcLen)

\* C9 witness: run_detection used up the default budget of 300 frames on a
\* source that reports rate 0 and has more frames
C9_Witness ==
    /\ fn = "run_detection" /\ pc = "after" /\ fps = 0
    /\ frame_count = 300 /\ srcLen = Endless

\* C10: detect_ai's loop ends for every source, also one that never reports
\* end of stream: at most 305 reads, then the capture is released.
C10_LoopTerminates ==
    /\ [](fn = "detect_ai" => reads <= 305)
    /\ (fn = "detect_ai" /\ pc = "loop") ~> (pc # "loop" /\ released)

\* C10 witness: an endless source was read 305 times and then released
C10_Witness ==
    /\ fn = "detect_ai" /\ srcLen = Endless /\ released /\ reads = 305

\* C5: every score in 0..100 gets exactly one label: REAL from 85,
\* UNDETERMINED from 60 to 84, AI below 60.
C5_LabelThresholds ==
    (fn = "labeler" /\ pc = "done") =>
        /\ result.label \in {"REAL", "UNDETERMINED", "AI"}
        /\ result.label = "REAL" <=> result.score >= 85
        /\ result.label = "UNDETERMINED" <=> (60 <= result.score /\ result.score < 85)
        /\ result.label = "AI" <=> result.score < 60

\* C5 witness: the four boundary scores have been labelled
C5_Witness ==
    /\ fn = "labeler" /\ pc = "done"
    /\ result \in {PairResult(85, "REAL"), PairResult(84, "UNDETERMINED"),
                   PairResult(60, "UNDETERMINED"), PairResult(59, "AI")}
    /\ result.score = 84

GptFailed ==
    g_fail \in {"unconfigured", "non_200", "timeout", "retries_exhausted",
                "unparsable", "incomplete"}

\* C4: when the semantic engine is unconfigured, gets a non-200 response,
\* times out, exhausts its retries or gets an unparsable or incomplete
\* answer, gpt_vision_score returns available = false.
C4_FailureIsUnavailable ==
    (fn = "gpt_vision_score" /\ g_pc = "done" /\ GptFailed) =>
        g_result.available = FALSE

\* C6: when the semantic engine is unavailable the combined score is the
\* primary score itself; the placeholder 50 that gpt_vision_score returns
\* when it is unconfigured or has no frames is never blended in.
C6_UnavailableIsExcluded ==
    (fn = "gpt_vision_score" /\ g_pc = "combined") =>
        /\ g_result.available = FALSE => combined = primary
        /\ (~keySet \/ n_frames = 0) => combined = primary

\* C6 witness: primary 80 combined with an unavailable placeholder 50 gave 80
C6_Witness ==
    /\ fn = "gpt_vision_score" /\ g_pc = "combined"
    /\ primary = 80 /\ g_result.available = FALSE
    /\ g_result.ai_probability = 50 /\ combined = 80

C11_TooFew(k) ==
    CASE k \in {8, 10, 11} -> n_noise < 2
      [] k = 9 -> n_motion < 2
      [] k = 12 -> n_buf < 3
      [] k = 13 -> n_buf < 4
      [] OTHER -> FALSE

\* C11: with one sampled frame detect_ai returns a score (no exception) and
\* every temporal signal is 0.0; in general a temporal signal whose minimum
\* number of frames is not met is 0.0.
C11_TemporalDefaults ==
    fn = "detect_ai" =>
        /\ (pc \in {"score", "done"} /\ step >= 2 /\ C11_TooFew(step - 1)) => sig = 0
        /\ n_noise = 1 => \A k \in 8 .. 13 : C11_TooFew(k)
        /\ (pc = "done" /\ n_noise = 1) => result.kind = "score"

\* C11 witness: a clip with one sampled frame was scored and returned, its
\* last temporal signal at the default
C11_Witness ==
    /\ fn = "detect_ai" /\ pc = "done" /\ n_noise = 1 /\ Len(sampled) = 1
    /\ step = 14 /\ sig = 0 /\ result.kind = "score"

\* the rule about to be applied reads a temporal signal that was defaulted
\* because too few frames were available
C12_Defaulted ==
    \/ fn = "detect_ai" /\ C11_TooFew(step)
    \/ fn = "run_detection" /\ step = 2 /\ n_motion < 2
    \/ fn = "run_detection" /\ step = 5 /\ n_hist < 1

\* C12: the bucket rule of a temporal signal that was defaulted to 0.0 for
\* lack of frames leaves the score as it is, in detect_ai and in
\* run_detection.
C12_DefaultsContributeNothing ==
    [][(pc = "score" /\ step' = step + 1 /\ C12_Defaulted) => score' = score]_vars

\* the adjustment of the first bucket of the list whose condition holds, 0
\* when none does
C13_FirstMatch(bs) ==
    IF \E i \in 1 .. Len(bs) : bs[i].hit
    THEN bs[CHOOSE i \in 1 .. Len(bs) :
                bs[i].hit /\ \A j \in 1 .. (i - 1) : ~bs[j].hit].delta
    ELSE 0

C13_Clamp(x) == IF x < 0 THEN 0 ELSE IF x > 100 THEN 100 ELSE x

\* C13: detect_ai starts from 50, every signal adds the adjustment of the
\* first bucket of its ordered list that matches (nothing when none matches),
\* once per signal, and the returned score is the sum clamped to 0..100, the
\* clamp being applied once after the last signal.
C13_ScoreIsClampedSum ==
    [][fn = "detect_ai" =>
          /\ (pc = "after" /\ pc' = "score") => (score' = 50 /\ step' = 1)
          /\ (pc = "score" /\ pc' = "score") =>
                /\ step \in 1 .. 13 /\ step' = step + 1
                /\ score' = score
                      + C13_FirstMatch(DA_Buckets(step, sig', n_motion, n_hist, n_buf))
          /\ (pc = "score" /\ pc' = "done") =>
                /\ step = 14 /\ score' = score
                /\ result'.score = C13_Clamp(score)]_vars

\* C13 witness: a sum below 0 was returned as 0, the last signal having
\* matched its second bucket
C13_Witness ==
    /\ fn = "detect_ai" /\ pc = "done" /\ step = 14
    /\ score < 0 /\ result.score = 0 /\ sig > 50000000

\* C17: before the clamp the score of detect_ai is within 85 of the baseline
\* 50, whatever buckets the signals fall into.
C17_SwingWithin85 ==
    (fn = "detect_ai" /\ pc = "score") => (score >= 50 - 85 /\ score <= 50 + 85)

AnalysisReturned(r) ==
    \/ rq[r].pc \in {"count", "insert", "stamp"}
    \/ rq[r].pc = "done" /\ rq[r].label # "none"

C18_DetectionReturnsTriple ==
    fn = "main" => \A r \in Requests : rq[r].exc.at # "unpack"

\* C19: after _run_analysis has been left, by return or by exception, the
\* clip file its call created is not on disk.
C19_ClipRemovedOnEveryExit ==
    fn = "main" =>
        \A r \in Requests :
            rq[r].pc \notin {"clip", "detect"} => ClipPath(r) \notin files

\* C20: when analyze_link has returned, on whatever path, its temporary
\* download file is not on disk.
C20_TmpRemovedOnEveryExit ==
    fn = "main" =>
        \A r \in Requests :
            (rq[r].kind = "analyze_link" /\ rq[r].pc = "done") =>
                TmpPath(r) \notin files

\* C20 witness: one analyze_link request ended in the generic exception
\* handler and another after a successful analysis, both past the creation
\* of their temporary file
C20_Witness ==
    /\ fn = "main"
    /\ \A r \in Requests : rq[r].kind = "analyze_link" /\ rq[r].pc = "done"
    /\ rq["r1"].resp.code = 500 /\ rq["r1"].exc.type = "FileNotFoundError"
    /\ rq["r2"].resp.code = 200 /\ rq["r2"].label # "none"
    /\ \A r \in Requests : TmpPath(r) \notin files

\* the upload request r was turned down by one of the four gates
C21_Rejected(r) == rq[r].gate \in {"format", "deliverable", "verified", "limit"}

\* C21: an upload is written to disk and analysed only when its address is
\* well-formed, deliverable and verified and the user is under the plan limit;
\* the gates are tried in that order and answer 400, 400, 403 and 402; a
\* request turned down by a gate changes no use counter and stores no
\* certificate row.
C21_GatesBeforeAnalysis ==
    /\ [](fn = "main" =>
            \A r \in Requests :
                rq[r].kind = "upload" =>
                    /\ (Path("raw", r) \in files
                        \/ rq[r].pc \in {"save", "clip", "detect", "count", "insert",
                                         "stamp"}
                        \/ rq[r].exc # NoExc \/ rq[r].label # "none") =>
                          /\ rq[r].checks.valid /\ rq[r].checks.deliverable
                          /\ rq[r].checks.verified
                          /\ rq[r].status.period_uses < rq[r].status.limit
                          /\ rq[r].gate = "passed"
                    /\ C21_Rejected(r) =>
                          /\ rq[r].pc = "done"
                          /\ Path("raw", r) \notin files
                          /\ \A c \in certs : c.cert_id # r
                          /\ rq[r].resp.code =
                                (IF ~rq[r].checks.valid THEN 400
                                 ELSE IF ~rq[r].checks.deliverable THEN 400
                                 ELSE IF ~rq[r].checks.verified THEN 403
                                 ELSE 402)
                          /\ rq[r].gate = "limit" =>
                                /\ rq[r].checks.valid /\ rq[r].checks.deliverable
                                /\ rq[r].checks.verified
                                /\ rq[r].status.period_uses >= rq[r].status.limit)
    /\ [][fn = "main" =>
            \A r \in Requests :
                (rq[r].kind = "upload" /\ ~C21_Rejected(r) /\ C21_Rejected(r)') =>
                    /\ certs' = certs
                    /\ \A e \in DOMAIN users :
                          /\ users'[e].period_uses = users[e].period_uses
                          /\ users'[e].total_uses = users[e].total_uses]_vars

\* C21 witness: one upload was turned down with 403 by the verification gate
\* and another, past all four gates, is on disk
C21_Witness ==
    /\ fn = "main"
    /\ rq["r1"].kind = "upload" /\ rq["r1"].gate = "verified"
    /\ rq["r1"].resp.code = 403
    /\ rq["r2"].kind = "upload" /\ rq["r2"].gate = "passed"
    /\ Path("raw", "r2") \in files

C23_Limit(plan) ==
    IF plan = "free" THEN 10
    ELSE IF plan = "creator" THEN 100
    ELSE IF plan = "pro" THEN 500
    ELSE IF plan = "enterprise" THEN 999999
    ELSE 10

\* C23: get_user_status reports the row of the user with limit the plan's
\* limit (10 for an unknown plan), allowed exactly when period_uses < limit,
\* over_limit its negation and uses_left = max(0, limit - period_uses); a
\* user that did not exist is created on plan free with no uses.
C23_StatusOfUser ==
    /\ [](fn = "user_status" =>
            \A r \in Requests :
                (rq[r].pc = "done" /\ rq[r].resp.code = 200) =>
                    LET st == rq[r].status
                        u == users[UserEmail]
                    IN  /\ u.exists
                        /\ st.plan = u.plan
                        /\ st.period_uses = u.period_uses
                        /\ st.total_uses = u.total_uses
                        /\ st.limit = C23_Limit(u.plan)
                        /\ st.allowed <=> (u.period_uses < st.limit)
                        /\ st.over_limit <=> ~st.allowed
                        /\ st.uses_left = (IF st.limit - u.period_uses > 0
                                           THEN st.limit - u.period_uses ELSE 0))
    /\ [][fn = "user_status" =>
            \A e \in DOMAIN users :
                (~users[e].exists /\ users'[e].exists) =>
                    /\ users'[e].plan = "free"
                    /\ users'[e].period_uses = 0
                    /\ users'[e].total_uses = 0]_vars

\* C23 witness: a user on a plan unknown to PLAN_LIMITS with 10 uses was
\* reported over the limit of 10 with no use left
C23_Witness ==
    /\ fn = "user_status"
    /\ rq["r1"].pc = "done" /\ rq["r1"].resp.code = 200
    /\ rq["r1"].status.plan = "legacy" /\ rq["r1"].status.period_uses = 10
    /\ rq["r1"].status.limit = 10 /\ ~rq["r1"].status.allowed
    /\ rq["r1"].status.uses_left = 0

\* the use counters of all users together
C24_Counters(us) ==
    [e \in DOMAIN us |-> <<us[e].total_uses, us[e].period_uses>>]

====
